---- MODULE Spec2Model ----
(***************************************************************************)
(* Model of zesty-dispatcher (src/unnamed/part_000, the weighted version   *)
(* of the plugin): the agent:bootstrap hook that filters the caller-owned  *)
(* bootstrapFiles list, and selectRelevantSkills, which it awaits.         *)
(*                                                                         *)
(* Strings are sequences of one-character strings, so that startsWith,     *)
(* endsWith, the path regex, \b word boundaries, toLowerCase, trim and     *)
(* split are computed character by character as the code computes them.    *)
(***************************************************************************)
EXTENDS Integers, Sequences, FiniteSets, TLC

(***************************************************************************)
(* String primitives (JavaScript String methods and regex atoms)           *)
(***************************************************************************)

UpperChars ==
    <<"A", "B", "C", "D", "E", "F", "G", "H", "I", "J", "K", "L", "M",
      "N", "O", "P", "Q", "R", "S", "T", "U", "V", "W", "X", "Y", "Z">>

LowerChars ==
    <<"a", "b", "c", "d", "e", "f", "g", "h", "i", "j", "k", "l", "m",
      "n", "o", "p", "q", "r", "s", "t", "u", "v", "w", "x", "y", "z">>

DigitChars ==
    {"0", "1", "2", "3", "4", "5", "6", "7", "8", "9"}

\* \s and what trim() strips
WhiteSpace ==
    {" ", "\t", "\n", "\r"}

\* \w : [A-Za-z0-9_]
WordChars ==
    {UpperChars[i] : i \in 1..26} \cup {LowerChars[i] : i \in 1..26}
        \cup DigitChars \cup {"_"}

IsWordChar(c) ==
    c \in WordChars

\* the lower-case letter of each upper-case letter
LowerOf ==
    [c \in {UpperChars[i] : i \in 1..26} |->
        LowerChars[CHOOSE i \in 1..26 : UpperChars[i] = c]]

ToLowerChar(c) ==
    IF c \in DOMAIN LowerOf THEN LowerOf[c] ELSE c

\* String.prototype.toLowerCase
ToLowerCase(s) ==
    [i \in 1..Len(s) |-> ToLowerChar(s[i])]

\* s.slice(from - 1, to) in 1-based inclusive positions
Slice(s, from, to) ==
    IF from > to THEN <<>> ELSE SubSeq(s, from, to)

\* does `sub` occur in s starting at position p (exact characters)
OccursAt(s, sub, p) ==
    /\ p >= 1
    /\ p + Len(sub) - 1 <= Len(s)
    /\ \A k \in 1..Len(sub) : s[p + k - 1] = sub[k]

StartsWith(s, prefix) ==
    OccursAt(s, prefix, 1)

EndsWith(s, suffix) ==
    OccursAt(s, suffix, Len(s) - Len(suffix) + 1)

\* String.prototype.indexOf(sub, from - 1), 1-based; 0 when absent
RECURSIVE IndexOfFrom(_, _, _)
IndexOfFrom(s, sub, from) ==
    IF from + Len(sub) - 1 > Len(s) THEN 0
    ELSE IF OccursAt(s, sub, from) THEN from
    ELSE IndexOfFrom(s, sub, from + 1)

\* the first position at or after `from` whose character is (is not) in `set`;
\* Len(s) + 1 when there is none
RECURSIVE FirstIn(_, _, _)
FirstIn(s, set, from) ==
    IF from > Len(s) THEN Len(s) + 1
    ELSE IF s[from] \in set THEN from
    ELSE FirstIn(s, set, from + 1)

RECURSIVE FirstNotIn(_, _, _)
FirstNotIn(s, set, from) ==
    IF from > Len(s) THEN Len(s) + 1
    ELSE IF s[from] \notin set THEN from
    ELSE FirstNotIn(s, set, from + 1)

\* the last position at or before `to` whose character is not in `set`; 0 when
\* there is none
RECURSIVE LastNotIn(_, _, _)
LastNotIn(s, set, to) ==
    IF to < 1 THEN 0
    ELSE IF s[to] \notin set THEN to
    ELSE LastNotIn(s, set, to - 1)

\* String.prototype.trim
Trim(s) ==
    Slice(s, FirstNotIn(s, WhiteSpace, 1), LastNotIn(s, WhiteSpace, Len(s)))

\* split on the characters of `seps`: the maximal pieces between separators
RECURSIVE SplitOn(_, _)
SplitOn(s, seps) ==
    LET p == FirstIn(s, seps, 1)
    IN  IF p > Len(s)
        THEN <<s>>
        ELSE <<Slice(s, 1, p - 1)>> \o SplitOn(Slice(s, p + 1, Len(s)), seps)

\* Array.prototype.includes
Includes(seq, x) ==
    \E i \in 1..Len(seq) : seq[i] = x

\* Array.prototype.join
RECURSIVE Join(_, _)
Join(seq, sep) ==
    IF seq = <<>> THEN <<>>
    ELSE IF Len(seq) = 1 THEN seq[1]
    ELSE seq[1] \o sep \o Join(Tail(seq), sep)

\* a position p of s (1..Len+1) is a \b word boundary
IsBoundary(s, p) ==
    LET before == p - 1 >= 1 /\ p - 1 <= Len(s) /\ IsWordChar(s[p - 1])
        after  == p >= 1 /\ p <= Len(s) /\ IsWordChar(s[p])
    IN  before # after

\* new RegExp(`\\b${escaped(word)}\\b`, 'i').test(text): the escaped word is a
\* literal; the i flag folds case on both sides
WholeWordTest(word, text) ==
    LET w == ToLowerCase(word)
        t == ToLowerCase(text)
    IN  \E p \in 1..Len(t) :
            /\ OccursAt(t, w, p)
            /\ IsBoundary(t, p)
            /\ IsBoundary(t, p + Len(w))

(***************************************************************************)
(* Program constants                                                       *)
(***************************************************************************)

\* the selection threshold, `if (score >= 60)`
Threshold == 60

\* scores[s] = 999 for an exempt candidate
ExemptScore == 999

NameMatchPoints == 60

LlmPoints == 60

\* Math.min(30, ...)
DescCap == 30

\* matchedKeywords.length * 10
DescPointsPerKeyword == 10

\* Buffer.alloc(1024), length: 1024
ReadLimit == 1024

\* the marker segment of the path regex
S_skills ==
    <<"s", "k", "i", "l", "l", "s">>

S_SKILL_md ==
    <<"S", "K", "I", "L", "L", ".", "m", "d">>

PathSeps ==
    {"/", "\\"}

S_dashes ==
    <<"-", "-", "-">>

S_name ==
    <<"n", "a", "m", "e">>

S_description ==
    <<"d", "e", "s", "c", "r", "i", "p", "t", "i", "o", "n">>

\* ["zesty-*", "qmd"]
DefaultExemptions ==
    << <<"z", "e", "s", "t", "y", "-", "*">>, <<"q", "m", "d">> >>

ReportPath ==
    <<"z", "e", "s", "t", "y", "-", "d", "i", "s", "p", "a", "t", "c", "h", "e", "r",
      "-", "r", "e", "p", "o", "r", "t", ".", "m", "d">>

ReportPrefix ==
    <<"\n", "\n", "[", "Z", "e", "s", "t", "y", " ", "D", "i", "s", "p", "a", "t",
      "c", "h", "e", "r", "]", " ", "A", "c", "t", "i", "v", "e", " ", "S", "k", "i",
      "l", "l", "s", " ", "(", "T", "h", "r", "e", "s", "h", "o", "l", "d", " ",
      "6", "0", ")", ":", " ">>

ReportSuffix ==
    <<".", "\n">>

JoinSep ==
    <<",", " ">>

(***************************************************************************)
(* Pure functions of the program                                           *)
(***************************************************************************)

Min(a, b) ==
    IF a <= b THEN a ELSE b

\* the variant without the wildcard branch
isExempt_ExactOnly(skillName, patterns) ==
    \E i \in 1..Len(patterns) : skillName = patterns[i]

\* isExempt: some pattern matches, by prefix when it ends with "*", else exactly
isExempt(skillName, patterns) ==
    \E i \in 1..Len(patterns) :
        LET pattern == patterns[i]
        IN  IF EndsWith(pattern, <<"*">>)
            THEN StartsWith(skillName, Slice(pattern, 1, Len(pattern) - 1))
            ELSE skillName = pattern

\* the positions where /[\\/]skills[\\/]([^\\/]+)/ can match in filePath
SkillMatchAt(filePath, p) ==
    /\ p >= 1
    /\ p + 8 <= Len(filePath)
    /\ filePath[p] \in PathSeps
    /\ OccursAt(filePath, S_skills, p + 1)
    /\ filePath[p + 7] \in PathSeps
    /\ filePath[p + 8] \notin PathSeps

\* the leftmost position at or after `from` where the regex matches; 0 if none
RECURSIVE SkillMatchFrom(_, _)
SkillMatchFrom(filePath, from) ==
    IF from + 8 > Len(filePath) THEN 0
    ELSE IF SkillMatchAt(filePath, from) THEN from
    ELSE SkillMatchFrom(filePath, from + 1)

HasSkillMatch(filePath) ==
    SkillMatchFrom(filePath, 1) # 0

\* match[1] of the leftmost match: the greedy run of non-separators after it
SkillNameOf(filePath) ==
    LET p == SkillMatchFrom(filePath, 1)
    IN  Slice(filePath, p + 8, FirstIn(filePath, PathSeps, p + 8) - 1)

\* group 1 of content.match(/---\s*([\s\S]*?)\s*---/): the text between the first
\* "---" and the next one, without the white space at its two ends
HasFrontmatter(content) ==
    LET i == IndexOfFrom(content, S_dashes, 1)
    IN  i # 0 /\ IndexOfFrom(content, S_dashes, i + 3) # 0

FrontmatterBody(content) ==
    LET i == IndexOfFrom(content, S_dashes, 1)
        j == IndexOfFrom(content, S_dashes, i + 3)
    IN  Trim(Slice(content, i + 3, j - 1))

\* the quote stripping of one value
StripQuotes(value) ==
    IF \/ StartsWith(value, <<"\"">>) /\ EndsWith(value, <<"\"">>)
       \/ StartsWith(value, <<"'">>) /\ EndsWith(value, <<"'">>)
    THEN Trim(Slice(value, 2, Len(value) - 1))
    ELSE value

\* the loop body of parseSkillMetadata on one line
ParseLine(meta, line) ==
    LET trimmedLine == Trim(line)
        colonIndex  == IndexOfFrom(trimmedLine, <<":">>, 1)
        key   == ToLowerCase(Trim(Slice(trimmedLine, 1, colonIndex - 1)))
        value == StripQuotes(Trim(Slice(trimmedLine, colonIndex + 1, Len(trimmedLine))))
    IN  IF trimmedLine = <<>> \/ trimmedLine = S_dashes \/ colonIndex = 0
        THEN meta
        ELSE [name        |-> IF key = S_name THEN value ELSE meta.name,
              description |-> IF key = S_description THEN value ELSE meta.description]

RECURSIVE ParseLines(_, _)
ParseLines(meta, lines) ==
    IF lines = <<>> THEN meta
    ELSE ParseLines(ParseLine(meta, Head(lines)), Tail(lines))

\* parseSkillMetadata; split(/\r?\n/) is a split on "\n", the "\r" before it
\* goes with the trim of each line
parseSkillMetadata(content) ==
    IF HasFrontmatter(content)
    THEN ParseLines([name |-> <<>>, description |-> <<>>],
                    SplitOn(FrontmatterBody(content), {"\n"}))
    ELSE [name |-> <<>>, description |-> <<>>]

\* handle.read into a 1024-byte buffer: at most the first 1024 characters
ReadPrefix(content) ==
    Slice(content, 1, Min(Len(content), ReadLimit))

\* nameRegex.test(qLower)
NameMatches(skillName, qLower) ==
    WholeWordTest(skillName, qLower)

\* qLower.split(/\s+/).filter(w => w.length > 2); the empty pieces a split on
\* single white space characters adds are dropped by the filter
Keywords(qLower) ==
    SelectSeq(SplitOn(qLower, WhiteSpace), LAMBDA w : Len(w) > 2)

MatchedKeywords(qLower, desc) ==
    SelectSeq(Keywords(qLower), LAMBDA k : WholeWordTest(k, desc))

\* Math.min(30, matchedKeywords.length * 10)
DescScore(matchedKeywords) ==
    Min(DescCap, Len(matchedKeywords) * DescPointsPerKeyword)

(***************************************************************************)
(* Records, turns and the hook's synchronous helpers                       *)
(***************************************************************************)

\* A record of bootstrapFiles is an object (path <<>> when it has no path, or
\* an empty one) or a bare string (text is the string; a string has no path).

\* const filePath = file.path || (typeof file === 'string' ? file : '')
FilePath(file) ==
    IF file.path # <<>> THEN file.path
    ELSE IF file.kind = "string" THEN file.text
    ELSE <<>>

\* (f.path || f).match(...) and (file.path || file).match(...): an object
\* without a path has no match method and the call throws a TypeError
MatchThrows(file) ==
    file.path = <<>> /\ file.kind # "string"

\* what the match is applied to in (file.path || file).match(...), when the
\* call does not throw
MatchSubject(file) ==
    IF file.path # <<>> THEN file.path ELSE file.text

\* a turn's content is usable as a query: `if (!query) return`
Truthy(content) ==
    \/ content.kind = "blocks"
    \/ content.kind = "string" /\ content.text # <<>>

\* [...(sessionEntry || [])].reverse().find(m => m.role === 'user')
HasUserMsg(history) ==
    \E i \in 1..Len(history) : history[i].role = "user"

\* the variant without reverse(): the first user turn
LastUserMsg_First(history) ==
    history[CHOOSE i \in 1..Len(history) :
                /\ history[i].role = "user"
                /\ \A j \in 1..(i - 1) : history[j].role # "user"]

LastUserMsg(history) ==
    history[CHOOSE i \in 1..Len(history) :
                /\ history[i].role = "user"
                /\ \A j \in (i + 1)..Len(history) : history[j].role # "user"]

\* const query = lastUserMsg ? lastUserMsg.content : ''
QueryOf(history) ==
    IF HasUserMsg(history)
    THEN LastUserMsg(history).content
    ELSE [kind |-> "string", text |-> <<>>]

\* Map.prototype.set on a map kept as a sequence of entries in insertion order
MapSet(map, key, value) ==
    IF \E i \in 1..Len(map) : map[i].name = key
    THEN [i \in 1..Len(map) |->
             IF map[i].name = key THEN [name |-> key, path |-> value] ELSE map[i]]
    ELSE Append(map, [name |-> key, path |-> value])

\* Array.from(skillFiles.keys())
MapKeys(map) ==
    [i \in 1..Len(map) |-> map[i].name]

\* skillFiles.get(skillName) is defined
MapHas(map, key) ==
    \E i \in 1..Len(map) : map[i].name = key

\* skillFiles.get(skillName)
MapGet(map, key) ==
    (CHOOSE e \in {map[i] : i \in 1..Len(map)} : e.name = key).path

\* does this record's path name a descriptor: filePath.endsWith("SKILL.md")
IsDescriptor(filePath) ==
    EndsWith(filePath, S_SKILL_md)

\* the first loop of the hook: skillPaths
RECURSIVE SkillPathsOf(_, _)
SkillPathsOf(files, map) ==
    IF files = <<>> THEN map
    ELSE LET filePath == FilePath(Head(files))
         IN  SkillPathsOf(Tail(files),
                 IF HasSkillMatch(filePath) /\ IsDescriptor(filePath)
                 THEN MapSet(map, SkillNameOf(filePath), filePath)
                 ELSE map)

\* the variant that leaves the reports of earlier invocations out
NonSkillFilesOf_WithoutReports(files) ==
    SelectSeq(files, LAMBDA f :
        ~HasSkillMatch(FilePath(f)) /\ f.path # ReportPath)

\* the first loop of the hook: nonSkillFiles
NonSkillFilesOf(files) ==
    SelectSeq(files, LAMBDA f : ~HasSkillMatch(FilePath(f)))

\* candidateNames.filter(s => isExempt(s, configExemptions))
ExemptionsOf(candidateNames, configExemptions) ==
    SelectSeq(candidateNames, LAMBDA n : isExempt(n, configExemptions))

\* the variant that scores every candidate, exempt or not
NonExemptOf_NoFilter(candidateNames, exemptions) ==
    candidateNames

\* candidateNames.filter(s => !exemptions.includes(s))
NonExemptOf(candidateNames, exemptions) ==
    SelectSeq(candidateNames, LAMBDA n : ~Includes(exemptions, n))

\* the keptFiles loop: keep a skill record iff its skill is selected
IsKept(file, sel) ==
    /\ HasSkillMatch(MatchSubject(file))
    /\ Includes(sel, SkillNameOf(MatchSubject(file)))

\* the variant that pushes the kept skill records first
KeptFilesOf_SkillsFirst(files, nonSkill, sel) ==
    SelectSeq(files, LAMBDA f : IsKept(f, sel)) \o nonSkill

\* const keptFiles = [...nonSkillFiles]; for (...) keptFiles.push(file)
KeptFilesOf(files, nonSkill, sel) ==
    nonSkill \o SelectSeq(files, LAMBDA f : IsKept(f, sel))

\* the report record pushed when selected.length > 0
ReportRecord(sel) ==
    [kind    |-> "object",
     path    |-> ReportPath,
     text    |-> <<>>,
     content |-> ReportPrefix \o Join(sel, JoinSep) \o ReportSuffix]

\* the variant without `if (selected.length > 0)`
RewrittenList_Always(kept, sel) ==
    Append(kept, ReportRecord(sel))

\* bootstrapFiles.length = 0; bootstrapFiles.push(...keptFiles); the report
RewrittenList(kept, sel) ==
    IF Len(sel) > 0 THEN Append(kept, ReportRecord(sel)) ELSE kept

(***************************************************************************)
(* Bounds and the inputs the environment draws from                        *)
(***************************************************************************)

\* the longest initial bootstrapFiles list
MaxFiles == 3

\* hook invocations on the same list
MaxInvocations == 2

\* the candidates of one call of selectRelevantSkills taken on its own
MaxCandidates == 2

N_pdf ==
    <<"p", "d", "f">>
N_git ==
    <<"g", "i", "t">>
N_zesty_x ==
    <<"z", "e", "s", "t", "y", "-", "x">>
N_ghost ==
    <<"g", "h", "o", "s", "t">>
P_agents ==
    <<"/", "A", "G", "E", "N", "T", "S", ".", "m", "d">>
P_memory ==
    <<"/", "w", "/", "M", "E", "M", "O", "R", "Y", ".", "m", "d">>
P_pdf_skill ==
    <<"/", "s", "k", "i", "l", "l", "s", "/", "p", "d", "f", "/", "S", "K", "I", "L", "L", ".", "m", "d">>
P_pdf_ref ==
    <<"/", "s", "k", "i", "l", "l", "s", "/", "p", "d", "f", "/", "r", "e", "f", ".", "m", "d">>
P_qmd_skill ==
    <<"/", "s", "k", "i", "l", "l", "s", "/", "q", "m", "d", "/", "S", "K", "I", "L", "L", ".", "m", "d">>
P_zesty_aux ==
    <<"/", "s", "k", "i", "l", "l", "s", "/", "z", "e", "s", "t", "y", "-", "x", "/", "a", ".", "m", "d">>
P_git_skill ==
    <<"\\", "s", "k", "i", "l", "l", "s", "\\", "g", "i", "t", "\\", "S", "K", "I", "L", "L", ".", "m", "d">>
Q_use_pdf ==
    <<"U", "s", "e", " ", "P", "D", "F">>
Q_parse ==
    <<"p", "a", "r", "s", "e", " ", "b", "i", "g", " ", "f", "i", "l", "e", "s", " ", "n", "o", "w">>
D_none ==
    <<"p", "d", "f", " ", "t", "o", "o", "l">>
D_pdf ==
    <<"-", "-", "-", "\n", "n", "a", "m", "e", ":", " ", "p", "d", "f", "\n", "d", "e", "s", "c", "r", "i", "p", "t", "i", "o", "n", ":", " ", "\"", "P", "a", "r", "s", "e", "s", " ", "P", "D", "F", " ", "f", "i", "l", "e", "s", "\"", "\n", "-", "-", "-", "\n">>
D_big ==
    <<"-", "-", "-", "\n", "d", "e", "s", "c", "r", "i", "p", "t", "i", "o", "n", ":", " ", "n", "o", "w", " ", "p", "a", "r", "s", "e", " ", "b", "i", "g", " ", "p", "d", "f", " ", "f", "i", "l", "e", "s", "\n", "-", "-", "-">>
C_text ==
    <<"x">>
X_git_star ==
    <<"g", "*">>

Obj(path) ==
    [kind |-> "object", path |-> path, text |-> <<>>, content |-> C_text]

Str(text) ==
    [kind |-> "string", path |-> <<>>, text |-> text, content |-> <<>>]

\* an object record without a path
NoPathRecord ==
    [kind |-> "object", path |-> <<>>, text |-> <<>>, content |-> C_text]

\* the records an initial list is made of, skill and non-skill records
\* interleaved, an auxiliary file before its descriptor
RecordPool ==
    <<Obj(P_pdf_ref), Obj(P_agents), Str(P_git_skill), Obj(P_zesty_aux),
      Str(P_memory), Obj(P_pdf_skill), NoPathRecord, Obj(P_qmd_skill)>>

\* the records of the pool at the positions in `at`, in the pool's order
RECURSIVE PoolAt(_, _)
PoolAt(at, i) ==
    IF i > Len(RecordPool) THEN <<>>
    ELSE (IF i \in at THEN <<RecordPool[i]>> ELSE <<>>) \o PoolAt(at, i + 1)

\* the initial lists: up to MaxFiles records of the pool
Manifests ==
    {PoolAt(at, 1) : at \in {a \in SUBSET (1..Len(RecordPool)) :
                                Cardinality(a) <= MaxFiles}}

UserTurn(text) ==
    [role |-> "user", content |-> [kind |-> "string", text |-> text]]

AssistantTurn ==
    [role |-> "assistant", content |-> [kind |-> "string", text |-> C_text]]

\* a user turn whose content is an array of content blocks, not a string
BlocksTurn ==
    [role |-> "user", content |-> [kind |-> "blocks", text |-> <<>>]]

\* a user turn with no content field
NoContentTurn ==
    [role |-> "user", content |-> [kind |-> "absent", text |-> <<>>]]

Histories ==
    {<<>>,
     <<AssistantTurn>>,
     <<UserTurn(Q_use_pdf), UserTurn(<<>>)>>,
     <<UserTurn(Q_use_pdf), NoContentTurn, AssistantTurn>>,
     <<UserTurn(Q_use_pdf), AssistantTurn>>,
     <<UserTurn(<<>>), UserTurn(Q_parse)>>,
     <<BlocksTurn>>}

\* the texts of the user turns
QueryTexts ==
    UNION {{h[i].content.text : i \in 1..Len(h)} : h \in Histories}

\* event.context present with a sessionEntry, or missing
Events ==
    {[hasContext |-> TRUE, sessionEntry |-> h] : h \in Histories}
    \cup {[hasContext |-> FALSE, sessionEntry |-> <<>>]}

\* api.pluginConfig?.exemptions: absent, or a configured list
ExemptionConfigs ==
    {[present |-> FALSE, patterns |-> <<>>],
     [present |-> TRUE, patterns |-> <<X_git_star>>]}

\* what the semantic collaborator does with the one call: the call throws, the
\* reply has no [...] in it, the reply's [...] is no JSON (names: what stands
\* between its brackets), or the reply holds a JSON array of names
LlmOutcomes ==
    {[kind |-> "throws", names |-> <<>>],
     [kind |-> "noarray", names |-> <<>>],
     [kind |-> "badjson", names |-> <<N_pdf>>],
     [kind |-> "array", names |-> <<N_pdf, N_ghost>>],
     [kind |-> "array", names |-> <<N_zesty_x, N_git>>]}

\* what opening and reading a descriptor gives
ReadOutcomes ==
    {[ok |-> FALSE, content |-> <<>>],
     [ok |-> TRUE, content |-> D_none],
     [ok |-> TRUE, content |-> D_pdf],
     [ok |-> TRUE, content |-> D_big]}

(***************************************************************************)
(* Inputs of selectRelevantSkills taken on its own                         *)
(***************************************************************************)

N_cpp ==
    <<"c", "+", "+">>
N_zesty_dispatcher ==
    <<"z", "e", "s", "t", "y", "-", "d", "i", "s", "p", "a", "t", "c", "h", "e", "r">>
N_zestydispatcher ==
    <<"z", "e", "s", "t", "y", "d", "i", "s", "p", "a", "t", "c", "h", "e", "r">>
N_Git_upper ==
    <<"G", "i", "t">>
N_dotnet ==
    <<".", "n", "e", "t">>
Q_pdf_tool ==
    <<"u", "s", "e", " ", "t", "h", "e", " ", "p", "d", "f", " ", "t", "o", "o", "l">>
Q_pdfgen_tool ==
    <<"u", "s", "e", " ", "t", "h", "e", " ", "p", "d", "f", "g", "e", "n", " ", "t",
      "o", "o", "l">>
Q_cpp ==
    <<"u", "s", "e", " ", "c", "+", "+", " ", "n", "o", "w">>
Q_five ==
    <<"n", "o", "w", " ", "p", "a", "r", "s", "e", " ", "b", "i", "g", " ", "p", "d",
      "f", " ", "f", "i", "l", "e", "s">>
Q_twice ==
    <<"p", "d", "f", " ", "a", "n", "d", " ", "p", "d", "f">>
Q_all_signals ==
    <<"Z", "e", "s", "t", "y", "D", "i", "s", "p", "a", "t", "c", "h", "e", "r", " ",
      "p", "a", "r", "s", "e", " ", "b", "i", "g", " ", "f", "i", "l", "e", "s">>
Q_aspnet ==
    <<"t", "r", "y", " ", "a", "s", "p", ".", "n", "e", "t", " ", "a", "n", "d", " ",
      "G", "I", "T">>
D_cpp ==
    <<"-", "-", "-", "\n", "d", "e", "s", "c", "r", "i", "p", "t", "i", "o", "n", ":",
      " ", "c", "+", "+", " ", "b", "u", "i", "l", "d", " ", "h", "e", "l", "p", "e",
      "r", "\n", "-", "-", "-", "\n">>
D_upper ==
    <<"-", "-", "-", "\r", "\n", "N", "a", "m", "e", ":", " ", "G", "i", "t", "\r", "\n",
      "D", "E", "S", "C", "R", "I", "P", "T", "I", "O", "N", ":", " ", "'", "B", "i",
      "g", " ", "P", "D", "F", " ", "a", "n", "d", " ", "g", "i", "t", "-", "t", "o",
      "o", "l", " ", "h", "e", "l", "p", "e", "r", "'", "\r", "\n", "-", "-", "-", "\r",
      "\n">>
S_skills_dir ==
    <<"/", "s", "k", "i", "l", "l", "s", "/">>
S_descriptor ==
    <<"/", "S", "K", "I", "L", "L", ".", "m", "d">>
X_pdf ==
    <<"p", "d", "f">>
N_qmd ==
    <<"q", "m", "d">>

\* the descriptor of a skill directory: <dir>/skills/<name>/SKILL.md
DescriptorPath(name) ==
    S_skills_dir \o name \o S_descriptor

\* the skills on disk: a name and what opening and reading its descriptor gives
SkillCases ==
    <<[name |-> N_pdf, read |-> [ok |-> TRUE, content |-> D_pdf]],
      [name |-> N_cpp, read |-> [ok |-> TRUE, content |-> D_cpp]],
      [name |-> N_zesty_dispatcher, read |-> [ok |-> TRUE, content |-> D_none]],
      [name |-> N_zestydispatcher, read |-> [ok |-> TRUE, content |-> D_big]],
      [name |-> N_qmd, read |-> [ok |-> FALSE, content |-> <<>>]],
      [name |-> N_Git_upper, read |-> [ok |-> TRUE, content |-> D_upper]],
      [name |-> N_dotnet, read |-> [ok |-> TRUE, content |-> D_none]]>>

\* fs.open and handle.read of a descriptor path
DiskRead(path) ==
    LET i == CHOOSE k \in 1..Len(SkillCases) :
                 DescriptorPath(SkillCases[k].name) = path
    IN  SkillCases[i].read

\* the descriptor records of the cases at the positions in `at`
RECURSIVE DescriptorsAt(_, _)
DescriptorsAt(at, i) ==
    IF i > Len(SkillCases) THEN <<>>
    ELSE (IF i \in at THEN <<Obj(DescriptorPath(SkillCases[i].name))>> ELSE <<>>)
             \o DescriptorsAt(at, i + 1)

\* the lists the hook calls selectRelevantSkills on: up to MaxCandidates skills
CandidateLists ==
    {DescriptorsAt(at, 1) : at \in {a \in SUBSET (1..Len(SkillCases)) :
                                       Cardinality(a) <= MaxCandidates}}

SelectQueries ==
    {Q_pdf_tool, Q_pdfgen_tool, Q_cpp, Q_five, Q_twice, Q_all_signals, Q_aspnet,
     Q_use_pdf}

\* api.pluginConfig?.exemptions: absent, an exact pattern, two wildcards
SelectConfigs ==
    {[present |-> FALSE, patterns |-> <<>>],
     [present |-> TRUE, patterns |-> <<X_pdf>>],
     [present |-> TRUE, patterns |-> <<X_git_star, N_zestydispatcher \o <<"*">> >>]}

SelectLlmOutcomes ==
    {[kind |-> "throws", names |-> <<>>],
     [kind |-> "array", names |-> <<N_zestydispatcher, N_ghost>>]}


(***************************************************************************)
(* State                                                                   *)
(***************************************************************************)

VARIABLES
    bootstrapFiles,   \* the caller-owned list, event.context.bootstrapFiles
    pc,               \* where the hook is: idle, llm, score, rewrite, done
    outcome,          \* none, running, or how the invocation ended: noop,
                      \* error, rewritten
    invocations,      \* hook invocations started so far
    entryFiles,       \* the list as it was when the invocation started
    event,            \* the event of the invocation
    query,            \* the hook's query (a turn's content)
    configExemptions, \* selectRelevantSkills: configExemptions
    llmAvailable,     \* what api.runtime?.llm?.generateText was found to be
    skillFiles,       \* the hook's skillPaths, selectRelevantSkills' skillFiles
    nonSkillFiles,    \* the hook's nonSkillFiles
    nonExempt,        \* selectRelevantSkills: nonExempt
    llmReply,         \* what generateText did: none, throws, noarray,
                      \* badjson, array
    llmRecommended,   \* selectRelevantSkills: llmRecommended
    llmCalls,         \* the candidate lists sent to generateText, in order
    reads,            \* the descriptor paths opened with fs.open, in order
    idx,              \* the scoring loop's position in nonExempt
    selected,         \* selectRelevantSkills: selected
    scores,           \* selectRelevantSkills: scores
    breakdown         \* selectRelevantSkills: breakdown

vars ==
    <<bootstrapFiles, pc, outcome, invocations, entryFiles, event, query,
      configExemptions, llmAvailable, skillFiles, nonSkillFiles, nonExempt,
      llmReply, llmRecommended, llmCalls, reads, idx, selected, scores,
      breakdown>>

NoQuery ==
    [kind |-> "string", text |-> <<>>]

NoEvent ==
    [hasContext |-> FALSE, sessionEntry |-> <<>>]

\* the locals of an invocation before it has computed anything
LocalsCleared ==
    /\ configExemptions = <<>>
    /\ llmAvailable = FALSE
    /\ skillFiles = <<>>
    /\ nonSkillFiles = <<>>
    /\ nonExempt = <<>>
    /\ llmReply = "none"
    /\ llmRecommended = <<>>
    /\ llmCalls = <<>>
    /\ reads = <<>>
    /\ idx = 1
    /\ selected = <<>>
    /\ scores = <<>>
    /\ breakdown = <<>>

Init ==
    /\ bootstrapFiles \in Manifests
    /\ pc = "idle"
    /\ outcome = "none"
    /\ invocations = 0
    /\ entryFiles = <<>>
    /\ event = NoEvent
    /\ query = NoQuery
    /\ LocalsCleared

(***************************************************************************)
(* selectRelevantSkills, the part before its first await                   *)
(***************************************************************************)

\* const configExemptions = api.pluginConfig?.exemptions || ["zesty-*", "qmd"]
ConfigExemptionsOf(cfg) ==
    IF cfg.present THEN cfg.patterns ELSE DefaultExemptions

\* scores[s] = 999 for every exempt candidate
ExemptScores(exemptions) ==
    [n \in {exemptions[i] : i \in 1..Len(exemptions)} |-> ExemptScore]

\* breakdown[s] = ["Exemption"]
ExemptBreakdown(exemptions) ==
    [n \in {exemptions[i] : i \in 1..Len(exemptions)} |->
        <<[kind |-> "Exemption", keywords |-> <<>>, points |-> 0] >>]

\* the variant without `nonExempt.length > 0`
CallsLlm_Always(nonEx, avail) ==
    avail

\* if (nonExempt.length > 0 && api.runtime?.llm?.generateText)
CallsLlm(nonEx, avail) ==
    Len(nonEx) > 0 /\ avail

\* JSON.stringify(nonExempt): the candidates the prompt carries
PromptCandidates(nonEx) ==
    nonEx

\* where the hook waits after the synchronous start of the selection: the
\* call of generateText, the first descriptor read, or the selection's return
AfterExemptionPass(nonEx, avail) ==
    IF CallsLlm(nonEx, avail) THEN "llm"
    ELSE IF Len(nonEx) > 0 THEN "score"
    ELSE "rewrite"

(***************************************************************************)
(* The agent:bootstrap hook                                                *)
(***************************************************************************)

CanStart ==
    /\ pc = "idle"
    /\ invocations < MaxInvocations

\* the variant in which a record without a path is taken for a non-skill
\* record and nothing throws on it
StartThrows_PathOptional(ev, files) ==
    \/ ~ev.hasContext
    \/ /\ Truthy(QueryOf(ev.sessionEntry))
       /\ QueryOf(ev.sessionEntry).kind # "string"

\* an exception reaches the hook's catch before anything is awaited: the event
\* has no context, a record has no match method, or the query is no string
StartThrows(ev, files) ==
    \/ ~ev.hasContext
    \/ /\ Truthy(QueryOf(ev.sessionEntry))
       /\ \/ \E i \in 1..Len(files) : MatchThrows(files[i])
          \/ QueryOf(ev.sessionEntry).kind # "string"

\* `if (!query) return`
StartReturns(ev) ==
    ev.hasContext /\ ~Truthy(QueryOf(ev.sessionEntry))

\* what every start of the hook does to the bookkeeping
Begin(ev) ==
    /\ invocations' = invocations + 1
    /\ entryFiles' = bootstrapFiles
    /\ event' = ev
    /\ query' = IF ev.hasContext THEN QueryOf(ev.sessionEntry) ELSE NoQuery

ClearLocals ==
    /\ configExemptions' = <<>>
    /\ llmAvailable' = FALSE
    /\ skillFiles' = <<>>
    /\ nonSkillFiles' = <<>>
    /\ nonExempt' = <<>>
    /\ llmReply' = "none"
    /\ llmRecommended' = <<>>
    /\ llmCalls' = <<>>
    /\ reads' = <<>>
    /\ idx' = 1
    /\ selected' = <<>>
    /\ scores' = <<>>
    /\ breakdown' = <<>>

\* the hook returns at `if (!query) return`
HookNoQuery(ev) ==
    /\ CanStart
    /\ StartReturns(ev)
    /\ Begin(ev)
    /\ ClearLocals
    /\ pc' = "done"
    /\ outcome' = "noop"
    /\ UNCHANGED bootstrapFiles

\* the hook's catch block: the error is logged, nothing is rethrown
HookThrows(ev) ==
    /\ CanStart
    /\ StartThrows(ev, bootstrapFiles)
    /\ Begin(ev)
    /\ ClearLocals
    /\ pc' = "done"
    /\ outcome' = "error"
    /\ UNCHANGED bootstrapFiles

\* selectRelevantSkills from its entry to its first await: the exemption pass,
\* nonExempt, and the call of generateText when there is one to make
ExemptionPass(paths, cfg, avail) ==
    LET candidates == MapKeys(paths)
        patterns   == ConfigExemptionsOf(cfg)
        exemptions == ExemptionsOf(candidates, patterns)
        nonEx      == NonExemptOf(candidates, exemptions)
    IN  /\ configExemptions' = patterns
        /\ selected' = exemptions
        /\ scores' = ExemptScores(exemptions)
        /\ breakdown' = ExemptBreakdown(exemptions)
        /\ nonExempt' = nonEx
        /\ llmAvailable' = avail
        /\ llmCalls' = IF CallsLlm(nonEx, avail)
                       THEN <<PromptCandidates(nonEx)>> ELSE <<>>
        /\ pc' = AfterExemptionPass(nonEx, avail)
        /\ llmReply' = "none"
        /\ llmRecommended' = <<>>
        /\ reads' = <<>>
        /\ idx' = 1

\* the variant that takes the records out of the list while it classifies them
AfterClassification_Drained(files) ==
    <<>>

\* the caller's list after the loop of lines 175-186 and the map/filter of
\* lines 189-193: both only read it
AfterClassification(files) ==
    files

\* the hook runs to its first await: the two loops over bootstrapFiles, then
\* selectRelevantSkills up to generateText, the first fs.open or its return
HookSelect(ev, cfg, avail) ==
    /\ CanStart
    /\ ~StartReturns(ev)
    /\ ~StartThrows(ev, bootstrapFiles)
    /\ Begin(ev)
    /\ skillFiles' = SkillPathsOf(bootstrapFiles, <<>>)
    /\ nonSkillFiles' = NonSkillFilesOf(bootstrapFiles)
    /\ ExemptionPass(SkillPathsOf(bootstrapFiles, <<>>), cfg, avail)
    /\ outcome' = "running"
    /\ bootstrapFiles' = AfterClassification(bootstrapFiles)

\* the variant that also scores the recommended names that are no candidates
ScoringList_WithRecommended(nonEx, recommended) ==
    nonEx \o SelectSeq(recommended, LAMBDA n : ~Includes(nonEx, n))

\* for (const skillName of nonExempt): the names the scoring loop goes through
ScoringList(nonEx, recommended) ==
    nonEx

\* the variant with a lenient parse of a bracketed list that is no JSON
RecommendedOf_Lenient(reply) ==
    IF reply.kind \in {"array", "badjson"} THEN reply.names ELSE <<>>

\* llmRecommended after the reply: JSON.parse of the matched array, or [] when
\* the call throws, nothing matches /\[.*\]/s, or JSON.parse throws
RecommendedOf(reply) ==
    IF reply.kind = "array" THEN reply.names ELSE <<>>

\* generateText settles; the try/catch around it never rethrows
LlmReturn(reply) ==
    /\ pc = "llm"
    /\ llmReply' = reply.kind
    /\ llmRecommended' = RecommendedOf(reply)
    /\ pc' = IF Len(ScoringList(nonExempt, RecommendedOf(reply))) > 0
             THEN "score" ELSE "rewrite"
    /\ UNCHANGED <<bootstrapFiles, outcome, invocations, entryFiles, event,
                   query, configExemptions, llmAvailable, skillFiles,
                   nonSkillFiles, nonExempt, llmCalls, reads, idx, selected,
                   scores, breakdown>>

\* the reasons and points of one candidate
NameReason(skillName, qLower) ==
    IF NameMatches(skillName, qLower)
    THEN <<[kind |-> "Name Match", keywords |-> <<>>, points |-> NameMatchPoints] >>
    ELSE <<>>

LlmReason(skillName, recommended) ==
    IF Includes(recommended, skillName)
    THEN <<[kind |-> "LLM Recommended", keywords |-> <<>>, points |-> LlmPoints] >>
    ELSE <<>>

\* the body of the try block around the descriptor read, once the read gave
\* `content`
DescReasonOf(qLower, content) ==
    LET meta    == parseSkillMetadata(ReadPrefix(content))
        desc    == ToLowerCase(meta.description)
        matched == MatchedKeywords(qLower, desc)
    IN  IF Len(matched) > 0
        THEN <<[kind |-> "Desc Keywords", keywords |-> matched,
                points |-> DescScore(matched)] >>
        ELSE <<>>

\* DescReasonOf on the lower-cased queries and descriptor contents of the model,
\* computed once
DescReasonTable ==
    [q \in {ToLowerCase(t) : t \in QueryTexts \cup SelectQueries},
     c \in {rd.content : rd \in ReadOutcomes}
            \cup {SkillCases[i].read.content : i \in 1..Len(SkillCases)}
        |-> DescReasonOf(q, c)]

\* the try block around the descriptor read; a failed open, read or close is
\* ignored and adds nothing
DescReason(qLower, rd) ==
    IF ~rd.ok THEN <<>>
    ELSE DescReasonTable[qLower, rd.content]

\* `if (skillPath)` is false: nothing is opened
NoRead ==
    [ok |-> FALSE, content |-> <<>>]

ReasonsOf(skillName, qLower, recommended, rd) ==
    NameReason(skillName, qLower) \o LlmReason(skillName, recommended)
        \o DescReason(qLower, rd)

RECURSIVE SumPoints(_)
SumPoints(reasons) ==
    IF reasons = <<>> THEN 0
    ELSE Head(reasons).points + SumPoints(Tail(reasons))

\* the variant with a strict comparison
PassesThreshold_Strict(score) ==
    score > Threshold

\* if (score >= 60) selected.push(skillName)
PassesThreshold(score) ==
    score >= Threshold

\* one pass of the scoring loop: the candidate's descriptor is opened, read
\* and closed, the score is stored and the threshold applied
ScoreCandidate(rd) ==
    /\ pc = "score"
    /\ idx <= Len(ScoringList(nonExempt, llmRecommended))
    /\ LET skillName == ScoringList(nonExempt, llmRecommended)[idx]
           qLower    == ToLowerCase(query.text)
           hasPath   == MapHas(skillFiles, skillName)
           reasons   == ReasonsOf(skillName, qLower, llmRecommended,
                                  IF hasPath THEN rd ELSE NoRead)
           score     == SumPoints(reasons)
       IN  /\ reads' = IF hasPath
                       THEN Append(reads, MapGet(skillFiles, skillName))
                       ELSE reads
           /\ scores' = (skillName :> score) @@ scores
           /\ breakdown' = (skillName :> reasons) @@ breakdown
           /\ selected' = IF PassesThreshold(score)
                          THEN Append(selected, skillName) ELSE selected
    /\ idx' = idx + 1
    /\ pc' = IF idx = Len(ScoringList(nonExempt, llmRecommended))
             THEN "rewrite" ELSE "score"
    /\ UNCHANGED <<bootstrapFiles, outcome, invocations, entryFiles, event,
                   query, configExemptions, llmAvailable, skillFiles,
                   nonSkillFiles, nonExempt, llmReply, llmRecommended, llmCalls>>

\* after `await selectRelevantSkills(...)`: keptFiles, the in-place rewrite of
\* the caller's list and the report, with nothing awaited in between
Rewrite ==
    /\ pc = "rewrite"
    /\ bootstrapFiles' =
           RewrittenList(KeptFilesOf(bootstrapFiles, nonSkillFiles, selected),
                         selected)
    /\ pc' = "done"
    /\ outcome' = "rewritten"
    /\ UNCHANGED <<invocations, entryFiles, event, query, configExemptions,
                   llmAvailable, skillFiles, nonSkillFiles, nonExempt, llmReply,
                   llmRecommended, llmCalls, reads, idx, selected, scores,
                   breakdown>>

\* the hook's promise has settled and the host goes on with the list; the
\* invocation's locals are gone
HostContinues ==
    /\ pc = "done"
    /\ pc' = "idle"
    /\ outcome' = "none"
    /\ entryFiles' = <<>>
    /\ event' = NoEvent
    /\ query' = NoQuery
    /\ ClearLocals
    /\ UNCHANGED <<bootstrapFiles, invocations>>

Next ==
    \/ \E ev \in Events : HookNoQuery(ev)
    \/ \E ev \in Events : HookThrows(ev)
    \/ \E ev \in Events, cfg \in ExemptionConfigs, avail \in BOOLEAN :
           HookSelect(ev, cfg, avail)
    \/ \E reply \in LlmOutcomes : LlmReturn(reply)
    \/ \E rd \in ReadOutcomes : ScoreCandidate(rd)
    \/ Rewrite
    \/ HostContinues

Spec ==
    Init /\ [][Next]_vars

(***************************************************************************)
(* selectRelevantSkills taken on its own, on skills that are on disk       *)
(***************************************************************************)

\* the hook has reached `await selectRelevantSkills(api, query, skillPaths)`
\* with a string query and a list of descriptors
SelectInit ==
    /\ bootstrapFiles \in CandidateLists
    /\ \E q \in SelectQueries :
           /\ query = [kind |-> "string", text |-> q]
           /\ event = [hasContext |-> TRUE, sessionEntry |-> <<UserTurn(q)>>]
    /\ pc = "select"
    /\ outcome = "running"
    /\ invocations = 1
    /\ entryFiles = bootstrapFiles
    /\ skillFiles = SkillPathsOf(bootstrapFiles, <<>>)
    /\ nonSkillFiles = NonSkillFilesOf(bootstrapFiles)
    /\ configExemptions = <<>>
    /\ llmAvailable = FALSE
    /\ nonExempt = <<>>
    /\ llmReply = "none"
    /\ llmRecommended = <<>>
    /\ llmCalls = <<>>
    /\ reads = <<>>
    /\ idx = 1
    /\ selected = <<>>
    /\ scores = <<>>
    /\ breakdown = <<>>

\* the synchronous start of selectRelevantSkills
SelectStart(cfg, avail) ==
    /\ pc = "select"
    /\ ExemptionPass(skillFiles, cfg, avail)
    /\ UNCHANGED <<bootstrapFiles, outcome, invocations, entryFiles, event,
                   query, skillFiles, nonSkillFiles>>

\* one pass of the scoring loop, the descriptor read from the disk
ScoreFromDisk ==
    /\ pc = "score"
    /\ idx <= Len(nonExempt)
    /\ ScoreCandidate(DiskRead(MapGet(skillFiles, nonExempt[idx])))

SelectNext ==
    \/ \E cfg \in SelectConfigs, avail \in BOOLEAN : SelectStart(cfg, avail)
    \/ \E reply \in SelectLlmOutcomes : LlmReturn(reply)
    \/ ScoreFromDisk

SelectSpec ==
    SelectInit /\ [][SelectNext]_vars

(***************************************************************************)
(* Properties                                                              *)
(***************************************************************************)

\* the keys of skillFiles: selectRelevantSkills' input candidates
CandidateNames ==
    MapKeys(skillFiles)

\* selectRelevantSkills has been called in this invocation
SelectionStarted ==
    \/ pc \in {"llm", "score", "rewrite"}
    \/ pc = "done" /\ outcome = "rewritten"

\* selectRelevantSkills has returned its result
SelectionReturned ==
    \/ pc = "rewrite"
    \/ pc = "done" /\ outcome = "rewritten"

ExemptionReason ==
    [kind |-> "Exemption", keywords |-> <<>>, points |-> 0]

IsSkillRecord(f) ==
    HasSkillMatch(FilePath(f))

\* C1: once selectRelevantSkills has run its exemption pass, and up to and
\* after its return, every input candidate whose name matches an exemption
\* pattern is in `selected`, has score 999 and the single reason "Exemption",
\* whatever the query, the descriptors and the collaborator did.
C1_ExemptAlwaysSelected ==
    SelectionStarted =>
        \A i \in 1..Len(CandidateNames) :
            LET n == CandidateNames[i]
            IN  isExempt(n, configExemptions) =>
                    /\ Includes(selected, n)
                    /\ n \in DOMAIN scores
                    /\ scores[n] = 999
                    /\ breakdown[n] = <<ExemptionReason>>

\* C1 witness: the selection returned after the collaborator threw, with an
\* exempt candidate selected at 999 beside a scored non-exempt one.
C1_Witness ==
    /\ pc = "rewrite"
    /\ llmReply = "throws"
    /\ \E i \in 1..Len(CandidateNames) :
           /\ isExempt(CandidateNames[i], configExemptions)
           /\ Includes(selected, CandidateNames[i])
           /\ scores[CandidateNames[i]] = 999
    /\ \E i \in 1..Len(CandidateNames) :
           /\ ~isExempt(CandidateNames[i], configExemptions)
           /\ CandidateNames[i] \in DOMAIN scores

\* C2: after a hook run with a non-empty query that rewrote the list, every
\* record of the input list whose inferred candidate name matches an exemption
\* pattern is still in the list, also when the candidate has no SKILL.md
\* record.
C2_ExemptRecordsRetained ==
    (pc = "done" /\ outcome = "rewritten") =>
        \A i \in 1..Len(entryFiles) :
            (/\ IsSkillRecord(entryFiles[i])
             /\ isExempt(SkillNameOf(FilePath(entryFiles[i])), configExemptions))
            => Includes(bootstrapFiles, entryFiles[i])

\* C3: when selectRelevantSkills returns, a non-exempt candidate is in
\* `selected` iff its score is >= 60; without a name match and without a
\* recommendation its score is at most 30 and it is not selected; a name match
\* or a recommendation alone selects it.
C3_ThresholdSelection ==
    SelectionReturned =>
        \A i \in 1..Len(CandidateNames) :
            LET n       == CandidateNames[i]
                nameHit == WholeWordTest(n, ToLowerCase(query.text))
                recHit  == Includes(llmRecommended, n)
            IN  ~isExempt(n, configExemptions) =>
                    /\ n \in DOMAIN scores
                    /\ Includes(selected, n) <=> scores[n] >= 60
                    /\ (~nameHit /\ ~recHit) =>
                           (scores[n] <= 30 /\ ~Includes(selected, n))
                    /\ (nameHit \/ recHit) => Includes(selected, n)

\* C3 witness: one candidate selected with exactly 60, another left out with
\* the full description score of 30.
C3_Witness ==
    /\ pc = "rewrite"
    /\ \E n \in DOMAIN scores : scores[n] = 60 /\ Includes(selected, n)
    /\ \E n \in DOMAIN scores : scores[n] = 30 /\ ~Includes(selected, n)

\* C4: every name in `selected` is an input candidate; a name the collaborator
\* returned that is no candidate is never in `selected`, and no record of that
\* name is in the list the hook leaves.
C4_HallucinationGuard ==
    SelectionStarted =>
        /\ \A i \in 1..Len(selected) : Includes(CandidateNames, selected[i])
        /\ \A k \in 1..Len(llmRecommended) :
               ~Includes(CandidateNames, llmRecommended[k]) =>
                   /\ ~Includes(selected, llmRecommended[k])
                   /\ (pc = "done" =>
                          \A j \in 1..Len(bootstrapFiles) :
                              IsSkillRecord(bootstrapFiles[j]) =>
                                  SkillNameOf(FilePath(bootstrapFiles[j]))
                                      # llmRecommended[k])

\* C4 witness: the collaborator named a skill of the list that is no candidate
\* (it has no descriptor record); the hook finished and dropped its record.
C4_Witness ==
    /\ pc = "done"
    /\ outcome = "rewritten"
    /\ \E k \in 1..Len(llmRecommended) :
           /\ ~Includes(CandidateNames, llmRecommended[k])
           /\ \E i \in 1..Len(entryFiles) :
                  /\ IsSkillRecord(entryFiles[i])
                  /\ SkillNameOf(FilePath(entryFiles[i])) = llmRecommended[k]
                  /\ ~Includes(bootstrapFiles, entryFiles[i])
    /\ selected # <<>>

\* the sum of the points of a candidate's reasons, without the collaborator's
NoLlmReason(reasons) ==
    \A r \in 1..Len(reasons) : reasons[r].kind # "LLM Recommended"

HasNameReason(reasons) ==
    \E r \in 1..Len(reasons) : reasons[r].kind = "Name Match"

\* C5: when the collaborator is not configured, throws, or replies without a
\* parsable JSON array, the selection goes on to the scoring loop and returns:
\* the recommendation set is empty, the loop is never stuck, every scored
\* non-exempt candidate has the sum of its name-match and description points,
\* and the exempt candidates are selected.
C5_SemanticFailureDegrades ==
    (/\ pc \in {"score", "rewrite"} \/ (pc = "done" /\ outcome = "rewritten")
     /\ ~llmAvailable \/ llmReply \in {"throws", "noarray", "badjson"})
    => /\ llmRecommended = <<>>
       /\ pc = "score" => idx <= Len(nonExempt)
       /\ \A i \in 1..Len(CandidateNames) :
              LET n == CandidateNames[i]
              IN  IF isExempt(n, configExemptions)
                  THEN Includes(selected, n)
                  ELSE (n \in DOMAIN scores) =>
                          /\ NoLlmReason(breakdown[n])
                          /\ scores[n] = SumPoints(breakdown[n])
                          /\ HasNameReason(breakdown[n])
                                 <=> WholeWordTest(n, ToLowerCase(query.text))
                          /\ scores[n] \in {0, 10, 20, 30, 60, 70, 80, 90}
       /\ SelectionReturned =>
              \A i \in 1..Len(CandidateNames) : CandidateNames[i] \in DOMAIN scores

\* C5 witness: the reply held a bracketed list that is no JSON; the selection
\* returned with a candidate selected on its name match and description alone.
C5_Witness ==
    /\ pc = "rewrite"
    /\ llmReply = "badjson"
    /\ \E n \in DOMAIN scores : scores[n] = 70 /\ Includes(selected, n)
    /\ \E n \in DOMAIN scores : scores[n] = 999

\* the input candidates that no exemption pattern matches, in input order
NonExemptCandidates ==
    SelectSeq(CandidateNames, LAMBDA n : ~isExempt(n, configExemptions))

\* C6: in one run of selectRelevantSkills generateText is called at most once:
\* once iff a non-exempt candidate remains and the collaborator is configured;
\* the call carries exactly the non-exempt candidates, and while it is pending
\* no descriptor has been read and no non-exempt candidate has a score.
C6_SingleBatchedCall ==
    SelectionStarted =>
        /\ Len(llmCalls) <= 1
        /\ Len(llmCalls) = 1 <=> (Len(NonExemptCandidates) > 0 /\ llmAvailable)
        /\ Len(llmCalls) = 1 => llmCalls[1] = NonExemptCandidates
        /\ pc = "llm" =>
               /\ Len(llmCalls) = 1
               /\ reads = <<>>
               /\ \A n \in DOMAIN scores : isExempt(n, configExemptions)
        /\ (Len(llmCalls) = 1 /\ llmReply = "none") => pc = "llm"

\* C6 witness: the selection returned after one call that carried two
\* non-exempt candidates and left out the exempt one, all three scored.
C6_Witness ==
    /\ pc = "rewrite"
    /\ Len(llmCalls) = 1
    /\ Len(llmCalls[1]) = 2
    /\ Len(CandidateNames) = 3
    /\ Len(reads) = 2

\* the turn list gives no query: no user turn, or the most recent user turn
\* has an empty or absent content
NoQueryIn(history) ==
    \/ \A i \in 1..Len(history) : history[i].role # "user"
    \/ \E i \in 1..Len(history) :
           /\ history[i].role = "user"
           /\ \A j \in (i + 1)..Len(history) : history[j].role # "user"
           /\ \/ history[i].content.kind = "absent"
              \/ history[i].content.kind = "string" /\ history[i].content.text = <<>>

\* C7: when the turn list has no user turn, or the most recent user turn has
\* an empty content, the hook ends at once as a no-op: the list is the list it
\* was given, generateText was not called and no descriptor was read.
C7_NoQueryNoOp ==
    (pc # "idle" /\ event.hasContext /\ NoQueryIn(event.sessionEntry)) =>
        /\ pc = "done"
        /\ outcome = "noop"
        /\ bootstrapFiles = entryFiles
        /\ llmCalls = <<>>
        /\ reads = <<>>

\* C7 witness: an earlier user turn has a query, the most recent one is empty,
\* and the list holds a skill record that a selection would have dropped.
C7_Witness ==
    /\ pc = "done"
    /\ outcome = "noop"
    /\ Len(event.sessionEntry) = 2
    /\ event.sessionEntry[1].role = "user"
    /\ event.sessionEntry[1].content.text # <<>>
    /\ event.sessionEntry[2].role = "user"
    /\ \E i \in 1..Len(bootstrapFiles) :
           /\ IsSkillRecord(bootstrapFiles[i])
           /\ ~IsDescriptor(FilePath(bootstrapFiles[i]))

\* the non-skill records of a list, and its skill records of selected skills
NonSkillRecords(files) ==
    SelectSeq(files, LAMBDA f : ~IsSkillRecord(f))

SelectedSkillRecords(files, sel) ==
    SelectSeq(files, LAMBDA f :
        IsSkillRecord(f) /\ Includes(sel, SkillNameOf(FilePath(f))))

IsReport(f) ==
    f.kind = "object" /\ f.path = ReportPath

\* C8: after a hook run with a query that ended without error, the caller's
\* list is the non-skill records of the input in their order, then the skill
\* records of selected skills in their order, then at most one new report
\* record.
C8_RewrittenListShape ==
    (pc = "done" /\ outcome = "rewritten") =>
        LET body == NonSkillRecords(entryFiles)
                        \o SelectedSkillRecords(entryFiles, selected)
        IN  \/ bootstrapFiles = body
            \/ /\ Len(bootstrapFiles) = Len(body) + 1
               /\ SubSeq(bootstrapFiles, 1, Len(body)) = body
               /\ IsReport(bootstrapFiles[Len(bootstrapFiles)])

\* C8 witness: the input had a skill record before a non-skill record, both
\* were kept, and another skill record was dropped.
C8_Witness ==
    /\ pc = "done"
    /\ outcome = "rewritten"
    /\ Len(entryFiles) = 3
    /\ IsSkillRecord(entryFiles[1])
    /\ ~IsSkillRecord(entryFiles[2])
    /\ Includes(bootstrapFiles, entryFiles[1])
    /\ bootstrapFiles[1] = entryFiles[2]
    /\ ~Includes(bootstrapFiles, entryFiles[3])

ReportCount(files) ==
    Len(SelectSeq(files, IsReport))

\* C9: an invocation that ends with a non-empty selection has added exactly
\* one report record, the last element of the list, whose content is the
\* report text around the selected names joined by ", "; any other invocation
\* has added none.
C9_OneReportIffSelected ==
    pc = "done" =>
        IF outcome = "rewritten" /\ selected # <<>>
        THEN /\ ReportCount(bootstrapFiles) = ReportCount(entryFiles) + 1
             /\ IsReport(bootstrapFiles[Len(bootstrapFiles)])
             /\ bootstrapFiles[Len(bootstrapFiles)].content =
                    ReportPrefix \o Join(selected, JoinSep) \o ReportSuffix
        ELSE ReportCount(bootstrapFiles) = ReportCount(entryFiles)

\* C9 witness: a second invocation added its own report after the first one's,
\* naming two selected skills.
C9_Witness ==
    /\ pc = "done"
    /\ outcome = "rewritten"
    /\ Len(selected) = 2
    /\ ReportCount(entryFiles) = 1
    /\ ReportCount(bootstrapFiles) = 2

\* the inputs on which the hook's body throws: an event without context, or,
\* with a query, a record that is an object without a path or a query that is
\* no string
RaisesException ==
    \/ ~event.hasContext
    \/ /\ ~NoQueryIn(event.sessionEntry)
       /\ \/ \E i \in 1..Len(entryFiles) :
                 entryFiles[i].kind = "object" /\ entryFiles[i].path = <<>>
          \/ query.kind # "string"

\* C10: an invocation in which an exception is raised ends in the hook's catch
\* block with the list exactly as it was given, and whenever the hook has ended
\* with an error the list is the list it was given.
C10_ErrorLeavesListUntouched ==
    /\ (pc # "idle" /\ RaisesException) =>
           /\ pc = "done"
           /\ outcome = "error"
           /\ bootstrapFiles = entryFiles
    /\ outcome = "error" => (pc = "done" /\ bootstrapFiles = entryFiles)

\* C10 witness: the hook ended with an error on a list that holds a record
\* without a path next to a skill record a rewrite would have dropped.
C10_Witness ==
    /\ pc = "done"
    /\ outcome = "error"
    /\ event.hasContext
    /\ query.kind = "string"
    /\ \E i \in 1..Len(bootstrapFiles) : MatchThrows(bootstrapFiles[i])
    /\ \E i \in 1..Len(bootstrapFiles) :
           /\ IsSkillRecord(bootstrapFiles[i])
           /\ ~IsDescriptor(FilePath(bootstrapFiles[i]))

\* `word` stands in `text` as a whole word: an occurrence with no word
\* character right before it and none right after it
OccursAsWholeWord(word, text) ==
    \E p \in 1..Len(text) :
        /\ OccursAt(text, word, p)
        /\ p = 1 \/ ~IsWordChar(text[p - 1])
        /\ p + Len(word) > Len(text) \/ ~IsWordChar(text[p + Len(word)])

\* the non-exempt candidates the scoring loop has gone through
ScoredCandidates ==
    {nonExempt[k] : k \in 1..Len(nonExempt)} \cap DOMAIN scores

\* the points of the reasons of one kind
PointsOfKind(reasons, kind) ==
    SumPoints(SelectSeq(reasons, LAMBDA r : r.kind = kind))

\* C11: a scored non-exempt candidate has the name-match reason, worth 60, if
\* and only if its name stands in the query as a whole word, letter case
\* ignored; a name that is only part of a longer token has none.
C11_NameMatchIffWholeWord ==
    \A n \in ScoredCandidates :
        /\ HasNameReason(breakdown[n])
               <=> OccursAsWholeWord(ToLowerCase(n), ToLowerCase(query.text))
        /\ PointsOfKind(breakdown[n], "Name Match")
               = IF HasNameReason(breakdown[n]) THEN 60 ELSE 0

\* the whitespace-separated tokens of the lower-cased query, one per occurrence
QueryTokens(text) ==
    SelectSeq(SplitOn(ToLowerCase(text), WhiteSpace), LAMBDA w : w # <<>>)

\* the tokens longer than two characters that stand as whole words in the
\* description, letter case ignored, counted once per occurrence in the query
TokensInDescription(text, description) ==
    SelectSeq(QueryTokens(text), LAMBDA w :
        Len(w) > 2 /\ OccursAsWholeWord(w, ToLowerCase(description)))

\* what the claim gives for the description of a candidate whose descriptor
\* read gave `rd`
ClaimedDescPoints(text, rd) ==
    IF ~rd.ok \/ ~HasFrontmatter(rd.content) THEN 0
    ELSE LET description == parseSkillMetadata(rd.content).description
             count       == Len(TokensInDescription(text, description))
         IN  IF 10 * count <= 30 THEN 10 * count ELSE 30

\* C12: a scored non-exempt candidate's description points are min(30, 10 x
\* the query tokens longer than two characters that stand as whole words in
\* its descriptor's description), 0 when the descriptor is missing, unreadable
\* or has no header; its score is name points (0 or 60) + recommendation
\* points (0 or 60) + description points, and at most 150.
C12_DescriptionContribution ==
    \A n \in ScoredCandidates :
        LET reasons == breakdown[n]
            name    == PointsOfKind(reasons, "Name Match")
            llm     == PointsOfKind(reasons, "LLM Recommended")
            desc    == PointsOfKind(reasons, "Desc Keywords")
        IN  /\ desc = ClaimedDescPoints(query.text,
                          DiskRead(MapGet(skillFiles, n)))
            /\ name \in {0, 60}
            /\ llm \in {0, 60}
            /\ scores[n] = name + llm + desc
            /\ scores[n] <= 150

\* one pattern matches a name: a pattern ending in "*" when the name starts
\* with the rest of the pattern, any other pattern when it is the name
PatternMatches(name, pattern) ==
    IF Len(pattern) > 0 /\ pattern[Len(pattern)] = "*"
    THEN /\ Len(name) >= Len(pattern) - 1
         /\ \A k \in 1..(Len(pattern) - 1) : name[k] = pattern[k]
    ELSE name = pattern

\* the patterns when no exemptions are configured
ClaimedDefaultPatterns ==
    << <<"z", "e", "s", "t", "y", "-", "*">>, <<"q", "m", "d">> >>

\* C13: once the exemption pass has run, a candidate was taken for exempt
\* (left out of nonExempt, selected with 999) if and only if some pattern in
\* force matches it, by prefix for a pattern ending in "*" and exactly
\* otherwise; under the default patterns zesty-dispatcher is exempt and
\* zestydispatcher is not; and the patterns in force are the configured ones,
\* or ["zesty-*", "qmd"] when none are configured.
C13_ExemptionMatching ==
    /\ [](pc # "select" =>
            /\ \A i \in 1..Len(CandidateNames) :
                   LET n == CandidateNames[i]
                       matched == \E j \in 1..Len(configExemptions) :
                                      PatternMatches(n, configExemptions[j])
                   IN  /\ ~Includes(nonExempt, n) <=> matched
                       /\ matched => (Includes(selected, n) /\ scores[n] = 999)
            /\ configExemptions = ClaimedDefaultPatterns =>
                   /\ ~Includes(nonExempt, N_zesty_dispatcher)
                   /\ Includes(CandidateNames, N_zestydispatcher)
                          => Includes(nonExempt, N_zestydispatcher))
    /\ [][\A cfg \in SelectConfigs, avail \in BOOLEAN :
              SelectStart(cfg, avail) =>
                  configExemptions' = IF cfg.present THEN cfg.patterns
                                      ELSE ClaimedDefaultPatterns]_vars

\* C13 witness: under the default patterns the candidates zesty-dispatcher and
\* zestydispatcher went through the exemption pass, the first exempt, the
\* second not.
C13_Witness ==
    /\ pc # "select"
    /\ configExemptions = ClaimedDefaultPatterns
    /\ CandidateNames = <<N_zesty_dispatcher, N_zestydispatcher>>
    /\ selected = <<N_zesty_dispatcher>>
    /\ scores[N_zesty_dispatcher] = 999
    /\ nonExempt = <<N_zestydispatcher>>

\* the hook is suspended at an await of selectRelevantSkills, or is about to
\* resume after it
AtAwait ==
    pc \in {"llm", "score", "rewrite"}

\* the list a finished rewrite leaves, from the list the hook was given
FullyRewritten(files, sel) ==
    NonSkillRecords(files) \o SelectedSkillRecords(files, sel)
        \o (IF sel # <<>> THEN <<ReportRecord(sel)>> ELSE <<>>)

\* C14: while the hook is suspended at the semantic call or at a descriptor
\* read the caller's list is the list the hook was given; the list changes in
\* one step only, the one that follows the return of the selection and ends
\* the invocation, and that step leaves the fully rewritten list.
C14_SingleMutationPoint ==
    /\ [](AtAwait => bootstrapFiles = entryFiles)
    /\ [][bootstrapFiles' # bootstrapFiles =>
              /\ pc = "rewrite"
              /\ pc' = "done"
              /\ outcome' = "rewritten"
              /\ selected' = selected
              /\ bootstrapFiles' = FullyRewritten(bootstrapFiles, selected)]_vars

\* C14 witness: the hook is suspended in the scoring loop, after the semantic
\* call and a descriptor read, on a list from which the rewrite will drop a
\* record.
C14_Witness ==
    /\ pc = "score"
    /\ llmCalls # <<>>
    /\ reads # <<>>
    /\ bootstrapFiles = entryFiles
    /\ \E i \in 1..Len(bootstrapFiles) :
           /\ IsSkillRecord(bootstrapFiles[i])
           /\ ~Includes(CandidateNames, SkillNameOf(FilePath(bootstrapFiles[i])))

\* the skill-associated records of a list
SkillRecords(files) ==
    SelectSeq(files, IsSkillRecord)

\* C15: over the invocations on one list, every step keeps each report record
\* that is in the list; the number of report records goes up by one in the
\* step that ends an invocation with a non-empty selection and is unchanged in
\* every other step, so it counts those invocations and never exceeds the
\* invocations started; an invocation that reaches the selection has put every
\* report of the list among its non-skill records; and no step adds a
\* skill-associated record to the list.
C15_ReportsAccumulate ==
    /\ [][/\ \A i \in 1..Len(bootstrapFiles) :
                 IsReport(bootstrapFiles[i]) =>
                     Includes(bootstrapFiles', bootstrapFiles[i])
          /\ ReportCount(bootstrapFiles') =
                 ReportCount(bootstrapFiles)
                     + (IF pc = "rewrite" /\ selected # <<>> THEN 1 ELSE 0)
          /\ (pc = "idle" /\ outcome' = "running") =>
                 \A i \in 1..Len(bootstrapFiles) :
                     IsReport(bootstrapFiles[i]) =>
                         Includes(nonSkillFiles', bootstrapFiles[i])
          /\ \A j \in 1..Len(bootstrapFiles') :
                 IsSkillRecord(bootstrapFiles'[j]) =>
                     Includes(bootstrapFiles, bootstrapFiles'[j])
          /\ Len(SkillRecords(bootstrapFiles'))
                 <= Len(SkillRecords(bootstrapFiles))]_vars
    /\ [](ReportCount(bootstrapFiles) <= invocations)

\* C15 witness: the second invocation on the list has ended; it classified
\* the first invocation's report as a non-skill record, kept it in front of
\* its own report, and a selected skill's record is still in the list.
C15_Witness ==
    /\ pc = "done"
    /\ outcome = "rewritten"
    /\ invocations = 2
    /\ \E i \in 1..Len(nonSkillFiles) : IsReport(nonSkillFiles[i])
    /\ ReportCount(bootstrapFiles) = 2
    /\ IsReport(bootstrapFiles[Len(bootstrapFiles)])
    /\ Len(SkillRecords(bootstrapFiles)) >= 1

====
